---- MODULE Spec2Model ----
(***************************************************************************)
(* A model of the paper ranking core (src/utils/ranking.py, PaperRanker)   *)
(* and of the scoring-response recovery (src/llm/gemini.py, GeminiClient). *)
(*                                                                         *)
(* A paper record is a Python dict: a function whose DOMAIN is the set of  *)
(* keys the dict has, so that dict.get(key, default) reads a missing key   *)
(* as its default.  Lists are sequences.                                   *)
(***************************************************************************)
EXTENDS Integers, Sequences, FiniteSets

VARIABLES
    min_combined_score, \* PaperRanker.min_combined_score
    papers,             \* the caller's list of paper dicts
    op,                 \* the call that produced `result` ("idle" before any)
    limit,              \* the limit argument of the last select_top_papers
    result,             \* the value the last call returned
    raised,             \* the exception the last call raised, "none" if none
    response,           \* the response of the last generate_content call
    llm,                \* the scoring model: the response text it gives each paper
    batch_size,         \* GeminiClient.batch_size
    batch_input,        \* the list as it was handed to batch_score_papers
    i,                  \* batch_score_papers: start of the current batch
    batch,              \* batch_score_papers: the papers of the current batch
    j,                  \* batch_score_papers: papers of the batch already scored
    scored_papers,      \* batch_score_papers: the list being built
    feed,               \* ArxivClient: what the feed request came back with
    max_results         \* ArxivClient.max_results

\* Lists of dicts hold references: batch and scored_papers are sequences of
\* positions of `papers`, whose dicts batch_score_papers changes in place.

rankerVars == <<min_combined_score, papers, op, limit, result, raised>>
scorerVars == <<response, llm, batch_size, batch_input, i, batch, j, scored_papers>>
fetcherVars == <<feed, max_results>>
vars == <<rankerVars, scorerVars, fetcherVars>>

----------------------------------------------------------------------------
(* Bounds of the model and constants of the program.                       *)

MaxPapers == 3          \* longest list handed to rank / filter / select
MaxLimit == 4           \* limit ranges over -MaxLimit..MaxLimit
ScoreSpread == 1        \* combined scores reach DefaultMinCombined + ScoreSpread
MaxStatPapers == 2      \* longest list handed to get_selection_stats
SubScoreSpread == 1     \* sub-scores reach HighScore + SubScoreSpread
MaxText == 5            \* longest response text, in tokens
MaxBatchPapers == 3     \* longest list handed to batch_score_papers
MaxEntries == 2         \* most entries of a feed
MaxDate == 2            \* publication dates range over 1..MaxDate
MaxResults == 2         \* max_results ranges over 1..MaxResults
MaxBatchSize == 2       \* batch_size ranges over 1..MaxBatchSize

DefaultMinCombined == 4 \* ranking.py: min_combined_score: int = 4
HighScore == 3          \* ranking.py: p.get('relevance_score', 0) == 3

None == "None"

----------------------------------------------------------------------------
(* Python helpers.                                                         *)

\* dict.get(key, default)
Get(p, key, default) == IF key \in DOMAIN p THEN p[key] ELSE default

Reverse(s) == [k \in 1..Len(s) |-> s[Len(s) + 1 - k]]

\* seq[:n] of Python: a negative n counts from the end.
SliceTo(s, n) ==
    IF n >= 0
    THEN SubSeq(s, 1, IF n < Len(s) THEN n ELSE Len(s))
    ELSE SubSeq(s, 1, IF Len(s) + n > 0 THEN Len(s) + n ELSE 0)

\* The sort key of rank_papers_by_scores.
CombinedKey(p) == Get(p, "combined_score", 0)

\* Variant: an insertion that takes a record equal to the one in front of it
\* for already present.
RECURSIVE InsertByKeyUnique(_, _)
InsertByKeyUnique(s, x) ==
    IF s = <<>> THEN <<x>>
    ELSE IF x = Head(s) THEN s
    ELSE IF CombinedKey(x) < CombinedKey(Head(s))
         THEN <<x>> \o s
         ELSE <<Head(s)>> \o InsertByKeyUnique(Tail(s), x)

\* One insertion of the stable ascending sort: x goes behind every element
\* whose key is not greater than its own.
RECURSIVE InsertByKey(_, _)
InsertByKey(s, x) ==
    IF s = <<>> THEN <<x>>
    ELSE IF CombinedKey(x) < CombinedKey(Head(s))
         THEN <<x>> \o s
         ELSE <<Head(s)>> \o InsertByKey(Tail(s), x)

RECURSIVE StableSortAsc(_)
StableSortAsc(s) ==
    IF s = <<>> THEN <<>>
    ELSE InsertByKey(StableSortAsc(SubSeq(s, 1, Len(s) - 1)), s[Len(s)])

\* Variant: an ascending sort reversed afterwards only, which turns the
\* order of equal keys around.
SortedThenReversed(s) == Reverse(StableSortAsc(s))

\* sorted(papers, key=..., reverse=True): list.sort reverses the list, sorts
\* it stably in ascending order and reverses the outcome, which keeps equal
\* keys in their input order.
SortedReverse(s) == Reverse(StableSortAsc(Reverse(s)))

----------------------------------------------------------------------------
(* PaperRanker                                                             *)

rank_papers_by_scores(ps) == SortedReverse(ps)

\* Variant: a filter that wants more than the threshold.
RECURSIVE filter_above_minimum_score(_, _)
filter_above_minimum_score(ps, min) ==
    IF ps = <<>> THEN <<>>
    ELSE IF Get(Head(ps), "combined_score", 0) > min
         THEN <<Head(ps)>> \o filter_above_minimum_score(Tail(ps), min)
         ELSE filter_above_minimum_score(Tail(ps), min)

\* The list comprehension of filter_by_minimum_score, one element at a time.
RECURSIVE filter_by_minimum_score(_, _)
filter_by_minimum_score(ps, min) ==
    IF ps = <<>> THEN <<>>
    ELSE IF Get(Head(ps), "combined_score", 0) >= min
         THEN <<Head(ps)>> \o filter_by_minimum_score(Tail(ps), min)
         ELSE filter_by_minimum_score(Tail(ps), min)

\* Variant: truncation ahead of the ranking.
select_first_papers(ps, min, lim) ==
    rank_papers_by_scores(SliceTo(filter_by_minimum_score(ps, min), lim))

select_top_papers(ps, min, lim) ==
    LET filtered_papers == filter_by_minimum_score(ps, min)
        ranked_papers == rank_papers_by_scores(filtered_papers)
    IN  SliceTo(ranked_papers, lim)

\* sum(p.get(key, 0) for p in papers)
RECURSIVE SumGet(_, _)
SumGet(ps, key) ==
    IF ps = <<>> THEN 0 ELSE Get(Head(ps), key, 0) + SumGet(Tail(ps), key)

\* Variant: "high" as a threshold instead of the exact top of the scale.
RECURSIVE CountAtLeastHigh(_, _)
CountAtLeastHigh(ps, key) ==
    IF ps = <<>> THEN 0
    ELSE (IF Get(Head(ps), key, 0) >= HighScore THEN 1 ELSE 0)
             + CountAtLeastHigh(Tail(ps), key)

\* sum(1 for p in papers if p.get(key, 0) == 3)
RECURSIVE CountHigh(_, _)
CountHigh(ps, key) ==
    IF ps = <<>> THEN 0
    ELSE (IF Get(Head(ps), key, 0) = HighScore THEN 1 ELSE 0)
             + CountHigh(Tail(ps), key)

RECURSIVE Gcd(_, _)
Gcd(a, b) == IF b = 0 THEN a ELSE Gcd(b, a % b)

\* a / b of Python for integers a >= 0, b > 0: the quotient as a number,
\* written as the fraction in lowest terms (0 / b is 0 over 1).
TrueDiv(a, b) == [num |-> a \div Gcd(a, b), den |-> b \div Gcd(a, b)]

ZeroStats ==
    [total |-> 0, avg_relevance |-> 0, avg_significance |-> 0,
     avg_combined |-> 0, high_relevance_count |-> 0,
     high_significance_count |-> 0]

\* The body of get_selection_stats behind its guard; dividing by a total
\* of 0 raises ZeroDivisionError.
ComputeStats(ps) ==
    LET total == Len(ps) IN
    IF total = 0
    THEN [raised |-> "ZeroDivisionError", value |-> None]
    ELSE [raised |-> "none",
          value |->
            [total |-> total,
             avg_relevance |-> TrueDiv(SumGet(ps, "relevance_score"), total),
             avg_significance |-> TrueDiv(SumGet(ps, "significance_score"), total),
             avg_combined |-> TrueDiv(SumGet(ps, "combined_score"), total),
             high_relevance_count |-> CountHigh(ps, "relevance_score"),
             high_significance_count |-> CountHigh(ps, "significance_score")]]

\* Variant: no guard for the empty list.
get_selection_stats_unguarded(ps) == ComputeStats(ps)

get_selection_stats(ps) ==
    IF ps = <<>>
    THEN [raised |-> "none", value |-> ZeroStats]
    ELSE ComputeStats(ps)

----------------------------------------------------------------------------
(* GeminiClient: recovery of the scores from the response text.            *)
(*                                                                         *)
(* A response text is a sequence of tokens:                                *)
(*   "{" "}"   the braces                                                  *)
(*   "nl"      a newline (white space to JSON, not matched by a regular    *)
(*             expression's dot unless DOTALL is set)                      *)
(*   "w"       brace-free prose, no JSON                                   *)
(*   "k:"      a JSON key with its colon, "details":                       *)
(*   "m_full", "m_part"  brace-free text that is a well-formed list of     *)
(*             JSON members, see MemberValue                               *)

MemberTokens == {"m_full", "m_part"}

Tokens == {"{", "}", "nl", "w", "k:"} \cup MemberTokens

\* The dict a member list parses to.
MemberValue(tok) ==
    IF tok = "m_full"
    THEN [relevance_score |-> 3, significance_score |-> 2, combined_score |-> 5]
    ELSE [relevance_score |-> 3, significance_score |-> 3]

Min(S) == CHOOSE x \in S : \A y \in S : x <= y
Max(S) == CHOOSE x \in S : \A y \in S : x >= y

\* Whether the dot of the pattern matches token c.
DotMatches(c, dotall) == dotall \/ c # "nl"

\* The ends e of a match of \{.*\} that starts at position b.
MatchEnds(text, b, dotall) ==
    {e \in (b + 1)..Len(text) :
        /\ text[e] = "}"
        /\ \A k \in (b + 1)..(e - 1) : DotMatches(text[k], dotall)}

\* Variant: a lazy quantifier, \{.*?\}, which stops at the first "}".
re_search_lazy(text, dotall) ==
    LET starts == {b \in 1..Len(text) :
                       text[b] = "{" /\ MatchEnds(text, b, dotall) # {}}
    IN  IF starts = {}
        THEN [matched |-> FALSE, group |-> <<>>]
        ELSE LET b == Min(starts)
                 e == Min(MatchEnds(text, b, dotall))
             IN  [matched |-> TRUE, group |-> SubSeq(text, b, e)]

\* re.search(r"\{.*\}", text, flags): the leftmost start that matches, and
\* from it the longest match (.* is greedy).  matched is FALSE for None.
re_search(text, dotall) ==
    LET starts == {b \in 1..Len(text) :
                       text[b] = "{" /\ MatchEnds(text, b, dotall) # {}}
    IN  IF starts = {}
        THEN [matched |-> FALSE, group |-> <<>>]
        ELSE LET b == Min(starts)
                 e == Max(MatchEnds(text, b, dotall))
             IN  [matched |-> TRUE, group |-> SubSeq(text, b, e)]

\* The first position from k on that holds no white space.
RECURSIVE SkipWhitespace(_, _)
SkipWhitespace(t, k) ==
    IF k <= Len(t) /\ t[k] = "nl" THEN SkipWhitespace(t, k + 1) ELSE k

NoParse == [ok |-> FALSE, value |-> <<>>, next |-> 0]

\* The JSON decoder on an object that starts at position k: the dict and
\* the position behind its closing brace, or no parse.
RECURSIVE ParseObject(_, _)
ParseObject(t, k) ==
    IF k > Len(t) \/ t[k] # "{" THEN NoParse
    ELSE
      LET a == SkipWhitespace(t, k + 1) IN
      IF a > Len(t) THEN NoParse
      ELSE IF t[a] = "}" THEN [ok |-> TRUE, value |-> <<>>, next |-> a + 1]
      ELSE IF t[a] \in MemberTokens THEN
        LET c == SkipWhitespace(t, a + 1) IN
        IF c <= Len(t) /\ t[c] = "}"
        THEN [ok |-> TRUE, value |-> MemberValue(t[a]), next |-> c + 1]
        ELSE NoParse
      ELSE IF t[a] = "k:" THEN
        LET inner == ParseObject(t, SkipWhitespace(t, a + 1))
            c == SkipWhitespace(t, inner.next)
        IN  IF inner.ok /\ c <= Len(t) /\ t[c] = "}"
            THEN [ok |-> TRUE, value |-> [details |-> inner.value], next |-> c + 1]
            ELSE NoParse
      ELSE NoParse

\* json.loads: one JSON value and nothing but white space around it; ok is
\* FALSE where it raises json.JSONDecodeError.
json_loads(t) ==
    LET r == ParseObject(t, SkipWhitespace(t, 1)) IN
    IF r.ok /\ SkipWhitespace(t, r.next) > Len(t)
    THEN [ok |-> TRUE, value |-> r.value]
    ELSE [ok |-> FALSE, value |-> None]

\* Variant: a malformed response scored as 0.
ZeroDefault ==
    [relevance_score |-> 0, significance_score |-> 0, combined_score |-> 0]

\* The except branch of score_paper_relevance.
DegradedDefault ==
    [relevance_score |-> 1, significance_score |-> 1, combined_score |-> 2]

\* Variant: no match answered with the degraded default.
NoJsonDefaulted(resp) ==
    [relevance_score |-> 1, significance_score |-> 1, combined_score |-> 2]

\* The else branch: no match.
NoJsonFound(resp) ==
    [error |-> "No valid JSON found in scoring", raw_response |-> resp]

\* score_paper_relevance from the response of generate_content on.
score_paper_relevance(resp) ==
    LET json_match == re_search(resp.text, TRUE) IN
    IF json_match.matched
    THEN LET parsed == json_loads(json_match.group) IN
         IF parsed.ok THEN parsed.value ELSE DegradedDefault
    ELSE NoJsonFound(resp)


\* Variant: paper.update(scores) ahead of the three assignments, which
\* carries every key of the scoring result over to the paper.
AttachAllOfScores(paper, scores) ==
    [key \in DOMAIN paper \cup DOMAIN scores
              \cup {"relevance_score", "significance_score", "combined_score"} |->
        IF key = "relevance_score" THEN Get(scores, "relevance_score", 1)
        ELSE IF key = "significance_score" THEN Get(scores, "significance_score", 1)
        ELSE IF key = "combined_score" THEN Get(scores, "combined_score", 2)
        ELSE IF key \in DOMAIN scores THEN scores[key]
        ELSE paper[key]]

\* The three assignments of batch_score_papers to the paper dict.
AttachScores(paper, scores) ==
    [key \in DOMAIN paper
              \cup {"relevance_score", "significance_score", "combined_score"} |->
        IF key = "relevance_score" THEN Get(scores, "relevance_score", 1)
        ELSE IF key = "significance_score" THEN Get(scores, "significance_score", 1)
        ELSE IF key = "combined_score" THEN Get(scores, "combined_score", 2)
        ELSE paper[key]]

\* range(0, n, size): the start that follows start b.
NextBatchStart(b, size) == b + size

\* Variant: a slice one short, papers[b:b + size - 1].
BatchSliceShort(n, b, size) ==
    LET last == IF b + size - 1 < n THEN b + size - 1 ELSE n
    IN  [k \in 1..(last - b) |-> b + k]

\* papers[b:b + size] of a list of n papers, as the positions it holds
\* (b counts from 0, positions from 1).
BatchSlice(n, b, size) ==
    LET last == IF b + size < n THEN b + size ELSE n
    IN  [k \in 1..(last - b) |-> b + k]

----------------------------------------------------------------------------
(* ArxivClient: the feed request and its parsing.                          *)
(*                                                                         *)
(* What the request comes back with is a record: status "error" when       *)
(* urlopen, read or decode raises; otherwise the body, which is            *)
(* well-formed XML or not and holds a sequence of entries.  An entry has   *)
(* every element the parser reads (complete) or lacks one.                 *)

\* The paper dict built from a complete entry (the fields the sort and the
\* later stages identify it by).
PaperOfEntry(entry) == [id |-> entry.id, published_datetime |-> entry.published]

\* for entry in entries: try ... papers.append(paper) except Exception: continue
RECURSIVE ParseEntries(_)
ParseEntries(entries) ==
    IF entries = <<>> THEN <<>>
    ELSE IF Head(entries).complete
         THEN <<PaperOfEntry(Head(entries))>> \o ParseEntries(Tail(entries))
         ELSE ParseEntries(Tail(entries))

\* _parse_arxiv_response: ET.fromstring raises ParseError on a body that is
\* not well-formed, ahead of the loop and outside its try.
parse_arxiv_response(body) ==
    IF ~body.well_formed
    THEN [raised |-> "ParseError", value |-> None]
    ELSE [raised |-> "none", value |-> ParseEntries(body.entries)]

RECURSIVE InsertByDate(_, _)
InsertByDate(s, x) ==
    IF s = <<>> THEN <<x>>
    ELSE IF x.published_datetime < Head(s).published_datetime
         THEN <<x>> \o s
         ELSE <<Head(s)>> \o InsertByDate(Tail(s), x)

RECURSIVE SortByDateAsc(_)
SortByDateAsc(s) ==
    IF s = <<>> THEN <<>>
    ELSE InsertByDate(SortByDateAsc(SubSeq(s, 1, Len(s) - 1)), s[Len(s)])

\* get_recent_papers from the request on: only the request is inside the
\* try; the parsing, the sort and the truncation follow it.
get_recent_papers(f, max) ==
    IF f.status = "error"
    THEN [raised |-> "none", value |-> <<>>]
    ELSE LET parsed == parse_arxiv_response(f) IN
         IF parsed.raised # "none"
         THEN parsed
         ELSE [raised |-> "none",
               value |-> SliceTo(Reverse(SortByDateAsc(Reverse(parsed.value))), max)]

----------------------------------------------------------------------------
(* Inputs.                                                                 *)

PaperIds == {"A", "B"}

CombinedScores == (DefaultMinCombined - 1)..(DefaultMinCombined + ScoreSpread)

\* Papers as the ranker sees them: with or without a combined_score.
RankPapers ==
    [id : PaperIds] \cup [id : PaperIds, combined_score : CombinedScores]

MinScores == {0} \cup (DefaultMinCombined..(DefaultMinCombined + ScoreSpread))

Limits == (0 - MaxLimit)..MaxLimit

SubScores == (HighScore - 1)..(HighScore + SubScoreSpread)

StatCombined == {2 * HighScore}

\* Papers as get_selection_stats sees them: each score present or not.
StatPapers ==
    LET I == {"A"} IN
    [id : I]
      \cup [id : I, relevance_score : SubScores]
      \cup [id : I, significance_score : SubScores]
      \cup [id : I, combined_score : StatCombined]
      \cup [id : I, relevance_score : SubScores, significance_score : SubScores]
      \cup [id : I, relevance_score : SubScores, combined_score : StatCombined]
      \cup [id : I, significance_score : SubScores, combined_score : StatCombined]
      \cup [id : I, relevance_score : SubScores, significance_score : SubScores,
            combined_score : StatCombined]

\* Every response text of up to MaxText tokens.
Texts == UNION {[1..k -> Tokens] : k \in 0..MaxText}

\* The texts the scoring model answers with in batch_score_papers: prose
\* only, an invalid span, a valid object in prose, an object without
\* combined_score, an empty object, and two objects in one text.
SampleResponses ==
    { <<"w">>,
      <<"{", "w", "}">>,
      <<"w", "{", "m_full", "}", "w">>,
      <<"{", "nl", "m_part", "nl", "}">>,
      <<"{", "}">>,
      <<"{", "m_full", "}", "w", "{", "m_part", "}">> }

\* Feed entries, and what a feed request can come back with.
Entries == [id : PaperIds, published : 1..MaxDate, complete : BOOLEAN]

Feeds ==
    {[status |-> "error", well_formed |-> FALSE, entries |-> <<>>],
     [status |-> "ok", well_formed |-> FALSE, entries |-> <<>>]}
      \cup {[status |-> "ok", well_formed |-> TRUE, entries |-> es] :
               es \in UNION {[1..k -> Entries] : k \in 0..MaxEntries}}

SeqsUpTo(S, n) == UNION {[1..k -> S] : k \in 0..n}

----------------------------------------------------------------------------
(* The ranker as a state machine: a caller holding a list calls the        *)
(* operations in any order.                                                *)

\* The fetcher takes no part in the ranker's and the scorer's specifications.
FetcherUnused ==
    /\ feed = None
    /\ max_results = 0

\* The scorer takes no part in the ranker's specifications.
ScorerUnused ==
    /\ response = None
    /\ llm = <<>>
    /\ batch_size = 1
    /\ batch_input = <<>>
    /\ i = 0
    /\ batch = <<>>
    /\ j = 0
    /\ scored_papers = <<>>

InitRank ==
    /\ min_combined_score \in MinScores
    /\ papers \in SeqsUpTo(RankPapers, MaxPapers)
    /\ op = "idle"
    /\ limit = 0
    /\ result = None
    /\ raised = "none"
    /\ ScorerUnused
    /\ FetcherUnused

\* Variant: papers.sort(...) in place of sorted(papers, ...).
RankPapersInPlace ==
    /\ op = "idle"
    /\ op' = "rank"
    /\ papers' = rank_papers_by_scores(papers)
    /\ result' = papers'
    /\ UNCHANGED fetcherVars
    /\ UNCHANGED <<min_combined_score, limit, raised, scorerVars>>

RankPapersByScores ==
    /\ op = "idle"
    /\ op' = "rank"
    /\ result' = rank_papers_by_scores(papers)
    /\ UNCHANGED fetcherVars
    /\ UNCHANGED <<min_combined_score, papers, limit, raised, scorerVars>>

FilterByMinimumScore ==
    /\ op = "idle"
    /\ op' = "filter"
    /\ result' = filter_by_minimum_score(papers, min_combined_score)
    /\ UNCHANGED fetcherVars
    /\ UNCHANGED <<min_combined_score, papers, limit, raised, scorerVars>>

SelectTopPapers ==
    /\ op = "idle"
    /\ \E lim \in Limits :
        /\ limit' = lim
        /\ result' = select_top_papers(papers, min_combined_score, lim)
    /\ op' = "select"
    /\ UNCHANGED fetcherVars
    /\ UNCHANGED <<min_combined_score, papers, raised, scorerVars>>

GetSelectionStats ==
    /\ op = "idle"
    /\ op' = "stats"
    /\ LET r == get_selection_stats(papers) IN
         /\ result' = r.value
         /\ raised' = r.raised
    /\ UNCHANGED fetcherVars
    /\ UNCHANGED <<min_combined_score, papers, limit, scorerVars>>

\* The caller takes the returned value and is ready for the next call.
Return ==
    /\ op \in {"rank", "filter", "select", "stats"}
    /\ op' = "idle"
    /\ limit' = 0
    /\ result' = None
    /\ raised' = "none"
    /\ UNCHANGED fetcherVars
    /\ UNCHANGED <<min_combined_score, papers, scorerVars>>

NextRank ==
    \/ RankPapersByScores
    \/ FilterByMinimumScore
    \/ SelectTopPapers
    \/ GetSelectionStats
    \/ Return

SpecRank == InitRank /\ [][NextRank]_vars

\* get_selection_stats over lists whose papers carry any of the three scores.
InitStats ==
    /\ min_combined_score \in {0, DefaultMinCombined}
    /\ papers \in SeqsUpTo(StatPapers, MaxStatPapers)
    /\ op = "idle"
    /\ limit = 0
    /\ result = None
    /\ raised = "none"
    /\ ScorerUnused
    /\ FetcherUnused

NextStats ==
    \/ GetSelectionStats
    \/ Return

SpecStats == InitStats /\ [][NextStats]_vars

\* One paper is scored: the model answers with any text.
InitParse ==
    /\ min_combined_score = DefaultMinCombined
    /\ papers = <<[id |-> "A"]>>
    /\ op = "idle"
    /\ limit = 0
    /\ result = None
    /\ raised = "none"
    /\ ScorerUnused
    /\ FetcherUnused

ScorePaperRelevance ==
    /\ op = "idle"
    /\ \E text \in Texts :
        /\ response' = [text |-> text]
        /\ result' = score_paper_relevance([text |-> text])
    /\ op' = "score"
    /\ UNCHANGED fetcherVars
    /\ UNCHANGED <<min_combined_score, papers, limit, raised>>
    /\ UNCHANGED <<llm, batch_size, batch_input, i, batch, j, scored_papers>>

ReturnScores ==
    /\ op = "score"
    /\ op' = "idle"
    /\ result' = None
    /\ response' = None
    /\ UNCHANGED fetcherVars
    /\ UNCHANGED <<min_combined_score, papers, limit, raised>>
    /\ UNCHANGED <<llm, batch_size, batch_input, i, batch, j, scored_papers>>

NextParse ==
    \/ ScorePaperRelevance
    \/ ReturnScores

SpecParse == InitParse /\ [][NextParse]_vars

\* batch_score_papers over a list of fetched papers; the scoring model
\* answers a paper by what the paper says, llm[paper.id].
InitBatch ==
    /\ min_combined_score = DefaultMinCombined
    /\ papers \in SeqsUpTo([id : PaperIds], MaxBatchPapers)
    /\ op = "idle"
    /\ limit = 0
    /\ result = None
    /\ raised = "none"
    /\ response = None
    /\ llm \in [PaperIds -> SampleResponses]
    /\ batch_size \in 1..MaxBatchSize
    /\ batch_input = <<>>
    /\ i = 0
    /\ batch = <<>>
    /\ j = 0
    /\ scored_papers = <<>>
    /\ FetcherUnused

\* The call: scored_papers = [] and the first evaluation of range().
BatchScorePapers ==
    /\ op = "idle"
    /\ op' = "batch_outer"
    /\ batch_input' = papers
    /\ scored_papers' = <<>>
    /\ i' = 0
    /\ UNCHANGED fetcherVars
    /\ UNCHANGED <<min_combined_score, papers, limit, result, raised>>
    /\ UNCHANGED <<response, llm, batch_size, batch, j>>

\* for i in range(...): batch = papers[i:i + self.batch_size]
TakeBatch ==
    /\ op = "batch_outer"
    /\ i < Len(papers)
    /\ batch' = BatchSlice(Len(papers), i, batch_size)
    /\ j' = 0
    /\ op' = "batch_inner"
    /\ UNCHANGED fetcherVars
    /\ UNCHANGED <<min_combined_score, papers, limit, result, raised>>
    /\ UNCHANGED <<response, llm, batch_size, batch_input, i, scored_papers>>

\* for paper in batch: score it, attach the scores, append it.
ScoreBatchPaper ==
    /\ op = "batch_inner"
    /\ j < Len(batch)
    /\ LET at == batch[j + 1]
           resp == [text |-> llm[papers[at].id]]
           scores == score_paper_relevance(resp)
       IN  /\ response' = resp
           /\ papers' = [papers EXCEPT ![at] = AttachScores(papers[at], scores)]
           /\ scored_papers' = Append(scored_papers, at)
    /\ j' = j + 1
    /\ UNCHANGED fetcherVars
    /\ UNCHANGED <<min_combined_score, op, limit, result, raised>>
    /\ UNCHANGED <<llm, batch_size, batch_input, i, batch>>

\* The batch is exhausted: range() moves on.
EndBatch ==
    /\ op = "batch_inner"
    /\ j = Len(batch)
    /\ i' = NextBatchStart(i, batch_size)
    /\ op' = "batch_outer"
    /\ UNCHANGED fetcherVars
    /\ UNCHANGED <<min_combined_score, papers, limit, result, raised>>
    /\ UNCHANGED <<response, llm, batch_size, batch_input, batch, j, scored_papers>>

\* range() is exhausted: return scored_papers.
BatchReturn ==
    /\ op = "batch_outer"
    /\ i >= Len(papers)
    /\ result' = [k \in 1..Len(scored_papers) |-> papers[scored_papers[k]]]
    /\ op' = "batch_done"
    /\ UNCHANGED fetcherVars
    /\ UNCHANGED <<min_combined_score, papers, limit, raised, scorerVars>>

\* The reporting stage: select_top_papers on the scored list.
SelectTopScored ==
    /\ op = "batch_done"
    /\ \E lim \in Limits :
        /\ limit' = lim
        /\ result' = select_top_papers(result, min_combined_score, lim)
    /\ op' = "batch_select"
    /\ UNCHANGED fetcherVars
    /\ UNCHANGED <<min_combined_score, papers, raised, scorerVars>>

NextBatch ==
    \/ BatchScorePapers
    \/ TakeBatch
    \/ ScoreBatchPaper
    \/ EndBatch
    \/ BatchReturn
    \/ SelectTopScored

SpecBatch == InitBatch /\ [][NextBatch]_vars

\* get_recent_papers: the feed answers with anything.
InitFetch ==
    /\ min_combined_score = DefaultMinCombined
    /\ papers = <<>>
    /\ op = "idle"
    /\ limit = 0
    /\ result = None
    /\ raised = "none"
    /\ ScorerUnused
    /\ FetcherUnused

GetRecentPapers ==
    /\ op = "idle"
    /\ \E f \in Feeds, max \in 1..MaxResults :
        /\ feed' = f
        /\ max_results' = max
        /\ LET r == get_recent_papers(f, max) IN
             /\ result' = r.value
             /\ raised' = r.raised
    /\ op' = "fetch"
    /\ UNCHANGED <<min_combined_score, papers, limit, scorerVars>>

ReturnPapers ==
    /\ op = "fetch"
    /\ op' = "idle"
    /\ result' = None
    /\ raised' = "none"
    /\ feed' = None
    /\ max_results' = 0
    /\ UNCHANGED <<min_combined_score, papers, limit, scorerVars>>

NextFetch ==
    \/ GetRecentPapers
    \/ ReturnPapers

SpecFetch == InitFetch /\ [][NextFetch]_vars

----------------------------------------------------------------------------
(* Vocabulary of the properties.                                           *)

\* The combined score a paper counts with: 0 when it has none.
ScoreOf(p) == IF "combined_score" \in DOMAIN p THEN p["combined_score"] ELSE 0

Occurrences(s, p) == Cardinality({k \in 1..Len(s) : s[k] = p})

NonIncreasing(s) ==
    \A a, b \in 1..Len(s) : a < b => ScoreOf(s[a]) >= ScoreOf(s[b])

\* The positions of the caller's list that reach the threshold.
Qualifying == {x \in 1..Len(papers) : ScoreOf(papers[x]) >= min_combined_score}

\* The place of position x in the stable descending order of the set Q of
\* positions: behind every higher score and every earlier equal score.
PlaceIn(Q, x) ==
    1 + Cardinality({y \in Q : \/ ScoreOf(papers[y]) > ScoreOf(papers[x])
                               \/ /\ ScoreOf(papers[y]) = ScoreOf(papers[x])
                                  /\ y < x})

----------------------------------------------------------------------------
(* C1: for a limit > 0, select_top_papers returns exactly the first        *)
(* min(limit, q) papers of the stable descending order of the q papers     *)
(* whose combined_score (0 if absent) reaches min_combined_score: every    *)
(* returned paper qualifies, the result is non-increasing, no qualifying   *)
(* paper left out beats a returned one, and with q < limit all q come back *)
(* and nothing is raised.                                                  *)
SelectTopIsHeadOfStableOrder ==
    (op = "select" /\ limit > 0) =>
        LET q == Cardinality(Qualifying)
            n == IF limit < q THEN limit ELSE q
        IN  /\ raised = "none"
            /\ Len(result) = n
            /\ \A x \in Qualifying :
                 PlaceIn(Qualifying, x) <= n =>
                     result[PlaceIn(Qualifying, x)] = papers[x]
            /\ \A r \in 1..Len(result) : ScoreOf(result[r]) >= min_combined_score
            /\ NonIncreasing(result)
            /\ \A x \in Qualifying :
                 PlaceIn(Qualifying, x) > n =>
                     \A r \in 1..Len(result) :
                         ScoreOf(papers[x]) <= ScoreOf(result[r])

\* Three papers qualify, two of them tie, and the limit of 2 cuts one off.
SelectTopTruncatesWitness ==
    /\ op = "select"
    /\ limit = 2
    /\ Len(papers) = 3
    /\ Cardinality(Qualifying) = 3
    /\ ScoreOf(papers[1]) = ScoreOf(papers[2])
    /\ ScoreOf(papers[3]) > ScoreOf(papers[1])
    /\ papers[1] # papers[2]
    /\ result = <<papers[3], papers[1]>>

(* C2: for every limit <= 0, zero and negative alike, select_top_papers    *)
(* returns the empty sequence.                                             *)
SelectTopNonPositiveLimitIsEmpty ==
    (op = "select" /\ limit <= 0) => result = <<>>

(* C3: the output of rank_papers_by_scores is non-increasing in            *)
(* combined_score (0 if absent), and papers of equal combined_score keep   *)
(* their relative input order.                                             *)
RankIsSortedAndStable ==
    op = "rank" =>
        /\ NonIncreasing(result)
        /\ \A c \in {ScoreOf(papers[x]) : x \in 1..Len(papers)} :
             SelectSeq(result, LAMBDA p : ScoreOf(p) = c)
                 = SelectSeq(papers, LAMBDA p : ScoreOf(p) = c)

\* Two different papers tie ahead of a higher one: [A, B, C] ranks [C, A, B].
RankStableWitness ==
    /\ op = "rank"
    /\ Len(papers) = 3
    /\ ScoreOf(papers[1]) = ScoreOf(papers[2])
    /\ papers[1] # papers[2]
    /\ ScoreOf(papers[3]) > ScoreOf(papers[1])
    /\ result = <<papers[3], papers[1], papers[2]>>

(* C4: the output of rank_papers_by_scores has the length of the input and *)
(* holds every record exactly as often as the input does.                  *)
RankIsPermutation ==
    op = "rank" =>
        /\ Len(result) = Len(papers)
        /\ \A k \in 1..Len(papers) :
             Occurrences(result, papers[k]) = Occurrences(papers, papers[k])
        /\ \A k \in 1..Len(result) :
             Occurrences(papers, result[k]) = Occurrences(result, result[k])

\* A record twice, a record without combined_score, and the order changed.
RankPermutationWitness ==
    /\ op = "rank"
    /\ \E a, b, c \in 1..Len(papers) :
         /\ a # b
         /\ papers[a] = papers[b]
         /\ "combined_score" \notin DOMAIN papers[c]
    /\ result # papers

(* C5: filter_by_minimum_score returns exactly the subsequence of the      *)
(* papers whose combined_score (0 if absent) is >= min_combined_score: a   *)
(* score equal to the threshold stays, a lower one goes, order is kept.    *)
FilterKeepsQualifyingInOrder ==
    op = "filter" =>
        /\ Len(result) = Cardinality(Qualifying)
        /\ \A x \in Qualifying :
             result[Cardinality({y \in Qualifying : y <= x})] = papers[x]

\* One paper exactly on the threshold, one below it, one above.
FilterBoundaryWitness ==
    /\ op = "filter"
    /\ min_combined_score = DefaultMinCombined
    /\ Len(papers) = 3
    /\ ScoreOf(papers[1]) = min_combined_score - 1
    /\ ScoreOf(papers[2]) = min_combined_score
    /\ ScoreOf(papers[3]) = min_combined_score + 1
    /\ result = <<papers[2], papers[3]>>

----------------------------------------------------------------------------
\* The sum over all papers of the caller's list of a score, 0 where missing,
\* counted value by value.
RECURSIVE WeightedCount(_, _)
WeightedCount(key, V) ==
    IF V = {} THEN 0
    ELSE LET v == CHOOSE w \in V : TRUE IN
         v * Cardinality({k \in 1..Len(papers) :
                              key \in DOMAIN papers[k] /\ papers[k][key] = v})
           + WeightedCount(key, V \ {v})

FieldSum(key) ==
    WeightedCount(key, {papers[k][key] :
                          k \in {x \in 1..Len(papers) : key \in DOMAIN papers[x]}})

ExactlyHigh(key) ==
    Cardinality({k \in 1..Len(papers) :
                     key \in DOMAIN papers[k] /\ papers[k][key] = 3})

(* C6: get_selection_stats on an empty list returns total, the three       *)
(* averages and the two high counts all 0, and divides by nothing.         *)
EmptyStatsAreZero ==
    (op = "stats" /\ papers = <<>>) =>
        /\ raised = "none"
        /\ result.total = 0
        /\ result.avg_relevance = 0
        /\ result.avg_significance = 0
        /\ result.avg_combined = 0
        /\ result.high_relevance_count = 0
        /\ result.high_significance_count = 0

EmptyStatsWitness ==
    /\ op = "stats"
    /\ papers = <<>>
    /\ raised = "none"
    /\ result.total = 0

(* C7: on a non-empty list get_selection_stats covers the whole list       *)
(* whatever min_combined_score is: total is the length; each average times *)
(* total is the sum of its field with a missing field as 0; the high       *)
(* counts count the papers whose score is exactly 3.                       *)
StatsOverWholeList ==
    (op = "stats" /\ papers # <<>>) =>
        /\ raised = "none"
        /\ result.total = Len(papers)
        /\ result.avg_relevance.num * result.total
             = FieldSum("relevance_score") * result.avg_relevance.den
        /\ result.avg_significance.num * result.total
             = FieldSum("significance_score") * result.avg_significance.den
        /\ result.avg_combined.num * result.total
             = FieldSum("combined_score") * result.avg_combined.den
        /\ result.avg_relevance.den > 0
        /\ result.avg_significance.den > 0
        /\ result.avg_combined.den > 0
        /\ result.high_relevance_count = ExactlyHigh("relevance_score")
        /\ result.high_significance_count = ExactlyHigh("significance_score")

\* A relevance of 3 beside a paper without relevance, a significance of 4,
\* and a combined score below the default threshold of the ranker.
StatsWitness ==
    /\ op = "stats"
    /\ min_combined_score = DefaultMinCombined
    /\ Len(papers) = 2
    /\ "relevance_score" \in DOMAIN papers[1]
    /\ papers[1]["relevance_score"] = 3
    /\ "relevance_score" \notin DOMAIN papers[2]
    /\ "significance_score" \in DOMAIN papers[2]
    /\ papers[2]["significance_score"] = 4
    /\ "combined_score" \notin DOMAIN papers[1]
    /\ result.total = 2
    /\ result.avg_relevance = [num |-> 3, den |-> 2]
    /\ result.high_relevance_count = 1
    /\ result.high_significance_count = 0

----------------------------------------------------------------------------
\* Some "{" of the response text comes before some "}".
HasBraceSpan ==
    \E b, e \in 1..Len(response.text) :
        b < e /\ response.text[b] = "{" /\ response.text[e] = "}"

ScoreKeys == {"relevance_score", "significance_score", "combined_score"}

\* What is left of a text that is one well-formed JSON object: the braces,
\* members and keys, without the white space.
Compact(t) == SelectSeq(t, LAMBDA c : c # "nl")

\* The texts of the token language that are one JSON object, by shape:
\* keys nest objects, the innermost object is empty or one member list.
RECURSIVE IsObjectShape(_)
IsObjectShape(t) ==
    /\ Len(t) >= 2
    /\ t[1] = "{"
    /\ t[Len(t)] = "}"
    /\ \/ Len(t) = 2
       \/ Len(t) = 3 /\ t[2] \in {"m_full", "m_part"}
       \/ Len(t) >= 5 /\ t[2] = "k:" /\ IsObjectShape(SubSeq(t, 3, Len(t) - 1))

\* The widest brace-delimited span of the response text is valid JSON.
SpanIsJson ==
    LET T == response.text
        b == CHOOSE x \in 1..Len(T) : T[x] = "{" /\ \A y \in 1..(x - 1) : T[y] # "{"
        e == CHOOSE x \in 1..Len(T) : T[x] = "}" /\ \A y \in (x + 1)..Len(T) : T[y] # "}"
    IN  IsObjectShape(Compact(SubSeq(T, b, e)))

(* C8: when the response text holds no brace-delimited span,               *)
(* score_paper_relevance returns a structured failure: an error indicator  *)
(* and the raw response with its text, and none of the three scores, so    *)
(* that it differs from the degraded default {1, 1, 2}.                    *)
NoSpanIsStructuredFailure ==
    (op = "score" /\ ~HasBraceSpan) =>
        /\ raised = "none"
        /\ "error" \in DOMAIN result
        /\ "raw_response" \in DOMAIN result
        /\ result["raw_response"].text = response.text
        /\ DOMAIN result \cap ScoreKeys = {}

\* "no json here", and a "}" that comes before the only "{".
NoSpanWitness ==
    /\ op = "score"
    /\ response.text = <<"w", "}", "{">>
    /\ DOMAIN result = {"error", "raw_response"}

(* C9: when the response text holds a brace-delimited span that is not     *)
(* valid JSON, score_paper_relevance raises nothing and returns exactly    *)
(* relevance_score 1, significance_score 1, combined_score 2, without an   *)
(* error indicator.                                                        *)
BadSpanIsDegradedDefault ==
    (op = "score" /\ HasBraceSpan /\ ~SpanIsJson) =>
        /\ raised = "none"
        /\ DOMAIN result = ScoreKeys
        /\ result["relevance_score"] = 1
        /\ result["significance_score"] = 1
        /\ result["combined_score"] = 2

\* "{invalid json}"
BadSpanWitness ==
    /\ op = "score"
    /\ response.text = <<"{", "w", "}">>
    /\ result = [relevance_score |-> 1, significance_score |-> 1,
                 combined_score |-> 2]

----------------------------------------------------------------------------
\* The scores a paper gets when it is scored on its own: those of the
\* object its response holds, 1, 1 and 2 where the object lacks them.
ScoresAlone(paper) ==
    LET T == llm[paper.id]
        found == \E b, e \in 1..Len(T) : b < e /\ T[b] = "{" /\ T[e] = "}"
        b == CHOOSE x \in 1..Len(T) : T[x] = "{" /\ \A y \in 1..(x - 1) : T[y] # "{"
        e == CHOOSE x \in 1..Len(T) : T[x] = "}" /\ \A y \in (x + 1)..Len(T) : T[y] # "}"
        span == Compact(SubSeq(T, b, e))
        object == IF found /\ IsObjectShape(span) /\ Len(span) = 3
                  THEN IF span[2] = "m_full"
                       THEN <<3, 2, 5>>
                       ELSE <<3, 3, 2>>
                  ELSE <<1, 1, 2>>
    IN  object

(* C10: for every batch size >= 1, batch_score_papers scores each paper    *)
(* exactly once and on its own: the returned list has the length and order *)
(* of the input, and each paper carries the scores it gets when it is      *)
(* scored alone, whatever the batch size and its place in a batch.         *)
BatchScoresEachPaperAlone ==
    op = "batch_done" =>
        /\ scored_papers = [k \in 1..Len(batch_input) |-> k]
        /\ Len(result) = Len(batch_input)
        /\ \A k \in 1..Len(result) :
             /\ result[k].id = batch_input[k].id
             /\ <<result[k].relevance_score, result[k].significance_score,
                  result[k].combined_score>> = ScoresAlone(batch_input[k])

\* Three papers in batches of two, the last batch not full, and the first
\* and the third paper answered differently.
BatchWitness ==
    /\ op = "batch_done"
    /\ batch_size = 2
    /\ Len(batch_input) = 3
    /\ Len(result) = 3
    /\ batch_input[1].id # batch_input[3].id
    /\ result[1].combined_score = 5
    /\ result[3].combined_score = 2


----------------------------------------------------------------------------
(* C11: after batch_score_papers every paper that carries a                *)
(* relevance_score and a significance_score has combined_score equal to    *)
(* their sum, whatever object the scoring response parsed to.              *)
CombinedIsSumAfterBatch ==
    op = "batch_done" =>
        \A k \in 1..Len(result) :
            ({"relevance_score", "significance_score"} \subseteq DOMAIN result[k]) =>
                /\ "combined_score" \in DOMAIN result[k]
                /\ result[k]["combined_score"]
                     = result[k]["relevance_score"] + result[k]["significance_score"]


----------------------------------------------------------------------------
\* The span from the first "{" of the response text to its last "}".
WidestSpan ==
    LET T == response.text
        b == CHOOSE x \in 1..Len(T) : T[x] = "{" /\ \A y \in 1..(x - 1) : T[y] # "{"
        e == CHOOSE x \in 1..Len(T) : T[x] = "}" /\ \A y \in (x + 1)..Len(T) : T[y] # "}"
    IN  SubSeq(T, b, e)

\* The dict a text of object shape stands for.
RECURSIVE ObjectOfShape(_)
ObjectOfShape(t) ==
    IF Len(t) = 2 THEN <<>>
    ELSE IF Len(t) = 3
         THEN IF t[2] = "m_full"
              THEN [relevance_score |-> 3, significance_score |-> 2,
                    combined_score |-> 5]
              ELSE [relevance_score |-> 3, significance_score |-> 3]
         ELSE [details |-> ObjectOfShape(SubSeq(t, 3, Len(t) - 1))]

(* C12: when some "{" of the response text comes before some "}", the span *)
(* score_paper_relevance extracts and parses runs from the first "{" to    *)
(* the last "}" of the text, newlines included, so that one valid object   *)
(* wrapped in brace-free prose yields exactly that object's scores; when   *)
(* no "{" is followed by a "}", no span is extracted.                      *)
SpanIsFirstBraceToLastBrace ==
    op = "score" =>
        LET json_match == re_search(response.text, TRUE) IN
        IF HasBraceSpan
        THEN /\ json_match.matched
             /\ json_match.group = WidestSpan
             /\ "error" \notin DOMAIN result
             /\ IF IsObjectShape(Compact(WidestSpan))
                THEN result = ObjectOfShape(Compact(WidestSpan))
                ELSE DOMAIN result = ScoreKeys /\ result["combined_score"] = 2
        ELSE /\ ~json_match.matched
             /\ "error" \in DOMAIN result

\* Prose, then an object whose members stand on a line of their own.
WidestSpanWitness ==
    /\ op = "score"
    /\ response.text = <<"w", "{", "nl", "m_full", "}">>
    /\ re_search(response.text, TRUE).group = <<"{", "nl", "m_full", "}">>
    /\ result = [relevance_score |-> 3, significance_score |-> 2,
                 combined_score |-> 5]


----------------------------------------------------------------------------
(* C13: get_recent_papers returns an empty list and raises nothing         *)
(* whenever the feed request fails or its response cannot be turned into   *)
(* records (a body that is not well-formed XML); a malformed entry is      *)
(* skipped and the other entries are kept.                                 *)
FetchFailureYieldsEmpty ==
    op = "fetch" =>
        /\ raised = "none"
        /\ (feed.status = "error" \/ ~feed.well_formed) => result = <<>>
        /\ (feed.status = "ok" /\ feed.well_formed) =>
             LET kept == Cardinality({k \in 1..Len(feed.entries) :
                                          feed.entries[k].complete})
             IN  Len(result) = IF kept < max_results THEN kept ELSE max_results


----------------------------------------------------------------------------
(* C14: whatever calls of rank_papers_by_scores, filter_by_minimum_score,  *)
(* select_top_papers and get_selection_stats are made, the ranker's        *)
(* min_combined_score stays what it was at construction and the caller's   *)
(* list keeps its elements, their order and their fields.                  *)
RankerLeavesItsInputAlone ==
    [][min_combined_score' = min_combined_score /\ papers' = papers]_vars

\* A ranking that differs from the list, and the list still out of order.
RankerFrameWitness ==
    /\ op = "rank"
    /\ min_combined_score = DefaultMinCombined
    /\ Len(papers) = 3
    /\ result # papers
    /\ ~NonIncreasing(papers)
    /\ NonIncreasing(result)


----------------------------------------------------------------------------
\* Some "{" of text T comes before some "}".
TextHasBraceSpan(T) ==
    \E b, e \in 1..Len(T) : b < e /\ T[b] = "{" /\ T[e] = "}"

(* C15: after batch_score_papers every returned paper carries all three    *)
(* scores; a paper whose scoring call found no brace span carries 1, 1     *)
(* and 2, the values of the degraded default, and neither an error         *)
(* indicator nor the raw response; with the default min_combined_score of  *)
(* 4 select_top_papers never returns such a paper.                         *)
FailureTiersMergeOnTheRecord ==
    /\ op = "batch_done" =>
         \A k \in 1..Len(result) :
             /\ DOMAIN result[k] = {"id"} \cup ScoreKeys
             /\ ~TextHasBraceSpan(llm[batch_input[k].id]) =>
                  result[k] = [id |-> batch_input[k].id, relevance_score |-> 1,
                               significance_score |-> 1, combined_score |-> 2]
    /\ op = "batch_select" =>
         /\ min_combined_score = 4
         /\ \A k \in 1..Len(result) : TextHasBraceSpan(llm[result[k].id])

\* A list with a paper answered in prose only and a paper scored 5: the
\* selection holds the second and not the first.
FailureTierWitness ==
    /\ op = "batch_select"
    /\ limit > 0
    /\ \E k \in 1..Len(batch_input) : ~TextHasBraceSpan(llm[batch_input[k].id])
    /\ Len(result) >= 1
    /\ Len(result) < Len(batch_input)

====
